---- MODULE Spec2Model ----
(***************************************************************************)
(* Model of the Segi9 HTTP plugin for Zabbix agent 2.                      *)
(*                                                                         *)
(* The repository carries two implementations of the plugin:               *)
(*   "current" : main.go (run / runManual) with plugin.go (Plugin.Export,  *)
(*               Plugin.doRequest, Plugin.Configure, Plugin.Validate);     *)
(*   "legacy"  : the plugin built around the package-level `impl`, whose   *)
(*               Export performs the request itself.                       *)
(* The variable `variant` fixes which of the two a behaviour runs, and the *)
(* variable `mode` whether the process serves the agent ("service") or     *)
(* runs one request from the command line ("manual").                      *)
(*                                                                         *)
(* Strings the code trims, lower-cases, compares or concatenates are       *)
(* sequences of one-character strings.                                     *)
(***************************************************************************)
EXTENDS Integers, Sequences, FiniteSets, TLC

\* ------------------------------------------------------------------------
\* Bounds of the model
\* ------------------------------------------------------------------------
NumWorkers == 2

NumConfigurers == 1

Workers == 1..NumWorkers

Configurers == 1..NumConfigurers

\* the host threads that can be inside Configure or Validate at the same time
NumHostThreads == 2

HostThreads == 1..NumHostThreads

\* ------------------------------------------------------------------------
\* Program constants
\* ------------------------------------------------------------------------
MinTimeout == 1

MaxTimeout == 30

DefaultTimeout == 10

\* ------------------------------------------------------------------------
\* Strings
\* ------------------------------------------------------------------------
UpperChars == <<"A","B","C","D","E","F","G","H","I","J","K","L","M",
                "N","O","P","Q","R","S","T","U","V","W","X","Y","Z">>

LowerChars == <<"a","b","c","d","e","f","g","h","i","j","k","l","m",
                "n","o","p","q","r","s","t","u","v","w","x","y","z">>

LowerChar(c) ==
    IF \E i \in DOMAIN UpperChars : UpperChars[i] = c
    THEN LowerChars[CHOOSE i \in DOMAIN UpperChars : UpperChars[i] = c]
    ELSE c

\* strings.ToLower
ToLower(s) == [i \in DOMAIN s |-> LowerChar(s[i])]

IsSpace(c) == c \in {" ", "\t"}

RECURSIVE TrimLeft(_)
TrimLeft(s) ==
    IF s = <<>> THEN <<>>
    ELSE IF IsSpace(Head(s)) THEN TrimLeft(Tail(s)) ELSE s

RECURSIVE TrimRight(_)
TrimRight(s) ==
    IF s = <<>> THEN <<>>
    ELSE IF IsSpace(s[Len(s)]) THEN TrimRight(SubSeq(s, 1, Len(s) - 1)) ELSE s

\* strings.TrimSpace
TrimSpace(s) == TrimRight(TrimLeft(s))

HasPrefix(s, p) == Len(s) >= Len(p) /\ SubSeq(s, 1, Len(p)) = p

S_none == <<"n","o","n","e">>

S_basic == <<"b","a","s","i","c">>

S_bearer == <<"b","e","a","r","e","r">>

S_BearerSp == <<"B","e","a","r","e","r"," ">>

S_key == <<"s","e","g","i","9",".","h","t","t","p">>

\* ------------------------------------------------------------------------
\* Config and the option payloads handed to Configure / Validate
\* ------------------------------------------------------------------------
ZeroConfig == [Timeout |-> 0, SkipVerify |-> FALSE]

DefaultConfig == [Timeout |-> DefaultTimeout, SkipVerify |-> FALSE]

ManualConfig == [Timeout |-> 10, SkipVerify |-> TRUE]

\* A field of a payload: present with a value, absent, or present with text
\* that does not decode to the field's type.
Val(v) == [tag |-> "val", v |-> v]

AbsentT == [tag |-> "absent", v |-> 0]

BadT == [tag |-> "bad", v |-> 0]

AbsentS == [tag |-> "absent", v |-> FALSE]

BadS == [tag |-> "bad", v |-> FALSE]

TimeoutInputs == {-3, 0, 1, 7, 30, 31, 45}

GlobalTimeoutInputs == {-1, 0, 5, 45}

TimeoutFields == {Val(t) : t \in TimeoutInputs} \cup {AbsentT, BadT}

SkipFields == {Val(b) : b \in BOOLEAN} \cup {AbsentS, BadS}

NilOptions == [kind |-> "nil", Timeout |-> AbsentT, SkipVerify |-> AbsentS]

\* a value of a type neither implementation decodes
OtherOptions == [kind |-> "other", Timeout |-> AbsentT, SkipVerify |-> AbsentS]

\* raw configuration data the SDK's conf.Unmarshal decodes (current)
RawOptions == [kind : {"raw"}, Timeout : TimeoutFields, SkipVerify : SkipFields]

\* a *Config (legacy): both fields always carry a value
ConfigOptions ==
    [kind : {"config"}, Timeout : {Val(t) : t \in TimeoutInputs},
     SkipVerify : {Val(b) : b \in BOOLEAN}]

\* a map[string]interface{} (legacy)
MapOptions == [kind : {"map"}, Timeout : TimeoutFields, SkipVerify : SkipFields]

OptionsOf(v) ==
    IF v = "current" THEN {NilOptions, OtherOptions} \cup RawOptions
    ELSE {NilOptions, OtherOptions} \cup ConfigOptions \cup MapOptions

NilGlobal == [isNil |-> TRUE, Timeout |-> 0]

Globals == {NilGlobal} \cup {[isNil |-> FALSE, Timeout |-> g] : g \in GlobalTimeoutInputs}

\* conf.Unmarshal(options, &cfg) under the tags of Config: fields are decoded in
\* declaration order, an absent field takes its default, a value outside
\* range=1:30 or undecodable text is an error that ends the decoding.
confUnmarshal(options, cfg) ==
    IF options.kind = "nil" THEN [cfg |-> DefaultConfig, err |-> FALSE]
    ELSE IF options.kind # "raw" THEN [cfg |-> cfg, err |-> TRUE]
    ELSE
      LET t == options.Timeout
          s == options.SkipVerify
          tErr == \/ t.tag = "bad"
                  \/ t.tag = "val" /\ (t.v < MinTimeout \/ t.v > MaxTimeout)
          c1 == IF t.tag = "absent" THEN [cfg EXCEPT !.Timeout = DefaultTimeout]
                ELSE [cfg EXCEPT !.Timeout = t.v]
          c2 == IF s.tag = "absent" THEN [c1 EXCEPT !.SkipVerify = FALSE]
                ELSE [c1 EXCEPT !.SkipVerify = s.v]
      IN IF tErr THEN [cfg |-> cfg, err |-> TRUE]
         ELSE IF s.tag = "bad" THEN [cfg |-> c1, err |-> TRUE]
         ELSE [cfg |-> c2, err |-> FALSE]

\* json.Marshal of the map followed by json.Unmarshal into the struct: only the
\* keys present are written; a value of the wrong type leaves its field alone
\* and is reported after the other fields were decoded.
jsonUnmarshal(options, cfg) ==
    LET t == options.Timeout
        s == options.SkipVerify
        c1 == IF t.tag = "val" THEN [cfg EXCEPT !.Timeout = t.v] ELSE cfg
        c2 == IF s.tag = "val" THEN [c1 EXCEPT !.SkipVerify = s.v] ELSE c1
    IN [cfg |-> c2, err |-> (t.tag = "bad" \/ s.tag = "bad")]

\* the type switch of the legacy Configure on privateOptions
LegacyApplyOptions(options, cfg) ==
    IF options.kind = "config"
    THEN [Timeout |-> options.Timeout.v, SkipVerify |-> options.SkipVerify.v]
    ELSE IF options.kind = "map" THEN jsonUnmarshal(options, cfg).cfg
    ELSE cfg

\* if options != nil { conf.Unmarshal(options, &p.config) }: the error is logged
\* and whatever the decoding wrote stays.
ApplyOptions(options, cfg) ==
    IF options.kind = "nil" THEN cfg ELSE confUnmarshal(options, cfg).cfg

\* GlobalFallback with a positive global timeout taking precedence over the
\* plugin's own
GlobalFallbackPrefersGlobal(global, cfg) ==
    IF ~global.isNil /\ global.Timeout > 0
    THEN [cfg EXCEPT !.Timeout = global.Timeout]
    ELSE cfg

\* GlobalFallback with the global timeout replacing any non-positive timeout
GlobalFallbackNonPositive(global, cfg) ==
    IF cfg.Timeout <= 0 /\ ~global.isNil /\ global.Timeout > 0
    THEN [cfg EXCEPT !.Timeout = global.Timeout]
    ELSE cfg

\* the global agent timeout replaces a plugin timeout of exactly zero
GlobalFallback(global, cfg) ==
    IF cfg.Timeout = 0 /\ ~global.isNil /\ global.Timeout > 0
    THEN [cfg EXCEPT !.Timeout = global.Timeout]
    ELSE cfg

\* the hard clamp of the current Configure
Clamp(cfg) ==
    LET c1 == IF cfg.Timeout < MinTimeout THEN [cfg EXCEPT !.Timeout = MinTimeout] ELSE cfg
    IN IF c1.Timeout > MaxTimeout THEN [c1 EXCEPT !.Timeout = MaxTimeout] ELSE c1

\* the final safeguard of the legacy Configure: a lower bound only
LegacyClamp(cfg) ==
    IF cfg.Timeout < 1 THEN [cfg EXCEPT !.Timeout = 1] ELSE cfg

\* Validate with the upper bound of the range excluded
ValidateUpperExclusive(options) ==
    LET r == IF options.kind = "nil" THEN [cfg |-> DefaultConfig, err |-> FALSE]
             ELSE confUnmarshal(options, DefaultConfig)
    IN IF r.err THEN FALSE
       ELSE ~(r.cfg.Timeout < MinTimeout \/ r.cfg.Timeout >= MaxTimeout)

\* Plugin.Validate (current): TRUE when it returns nil
Validate(options) ==
    LET r == IF options.kind = "nil" THEN [cfg |-> DefaultConfig, err |-> FALSE]
             ELSE confUnmarshal(options, DefaultConfig)
    IN IF r.err THEN FALSE
       ELSE ~(r.cfg.Timeout < MinTimeout \/ r.cfg.Timeout > MaxTimeout)

\* Plugin.Validate (legacy): TRUE when it returns nil
LegacyValidate(options) ==
    LET d == confUnmarshal(NilOptions, ZeroConfig).cfg
        r == IF options.kind = "config"
             THEN [cfg |-> [Timeout |-> options.Timeout.v,
                            SkipVerify |-> options.SkipVerify.v], err |-> FALSE]
             ELSE IF options.kind = "map" THEN jsonUnmarshal(options, d)
             ELSE [cfg |-> d, err |-> FALSE]
    IN IF r.err THEN FALSE
       ELSE ~(r.cfg.Timeout < 1 \/ r.cfg.Timeout > 30)

\* ------------------------------------------------------------------------
\* Requests: parameters, URL handling, authentication
\* ------------------------------------------------------------------------
S_url == <<"h","t","t","p",":","/","/","h">>

S_http == <<"h","t","t","p">>

S_https == <<"h","t","t","p","s">>

Letters == {UpperChars[i] : i \in DOMAIN UpperChars} \cup {LowerChars[i] : i \in DOMAIN LowerChars}

HexDigits == {"0","1","2","3","4","5","6","7","8","9",
              "a","b","c","d","e","f","A","B","C","D","E","F"}

\* net/url.Parse as http.NewRequest uses it, for the characters of the model:
\* letters, ":", "/", "%", space and tab. ok is FALSE where Parse returns an
\* error; scheme and host are those of the parsed URL.
urlParse(u) ==
    LET nonLetters == {i \in DOMAIN u : u[i] \notin Letters}
        k == IF nonLetters = {} THEN 0
             ELSE CHOOSE i \in nonLetters : \A j \in nonLetters : i <= j
        hasScheme == k > 1 /\ u[k] = ":"
        missingScheme == k = 1 /\ u[k] = ":"
        scheme == IF hasScheme THEN ToLower(SubSeq(u, 1, k - 1)) ELSE <<>>
        rest == IF hasScheme THEN SubSeq(u, k + 1, Len(u)) ELSE u
        slashes == {i \in DOMAIN rest : rest[i] = "/"}
        firstSlash == IF slashes = {} THEN Len(rest) + 1
                      ELSE CHOOSE i \in slashes : \A j \in slashes : i <= j
        segmentColon == /\ ~hasScheme
                        /\ firstSlash # 1
                        /\ \E i \in 1..(firstSlash - 1) : rest[i] = ":"
        hasAuthority == HasPrefix(rest, <<"/","/">>)
        after == IF hasAuthority THEN SubSeq(rest, 3, Len(rest)) ELSE <<>>
        aSlashes == {i \in DOMAIN after : after[i] = "/"}
        hostEnd == IF aSlashes = {} THEN Len(after)
                   ELSE (CHOOSE i \in aSlashes : \A j \in aSlashes : i <= j) - 1
        host == SubSeq(after, 1, hostEnd)
        ctl == \E i \in DOMAIN u : u[i] = "\t"
        badEscape == \E i \in DOMAIN u :
                        /\ u[i] = "%"
                        /\ \/ i + 2 > Len(u)
                           \/ u[i + 1] \notin HexDigits
                           \/ u[i + 2] \notin HexDigits
        badHost == \E i \in DOMAIN host : host[i] = " "
    IN [ok |-> ~(ctl \/ missingScheme \/ segmentColon \/ badEscape \/ badHost),
        scheme |-> scheme,
        host |-> host]

\* whether http.Client.Do can put the request on the wire at all: the transport
\* refuses a URL without an http/https scheme or without a host
CanSend(u) ==
    LET p == urlParse(u)
    IN p.ok /\ p.scheme \in {S_http, S_https} /\ p.host # <<>>

NoOutcome == [kind |-> "none", err |-> "", value |-> <<>>]

Failure(e, v) == [kind |-> "failure", err |-> e, value |-> v]

Success(body) == [kind |-> "success", err |-> "", value |-> body]

NoAuth == [scheme |-> "none", header |-> <<>>, username |-> <<>>, password |-> <<>>]

\* req.SetBasicAuth(user, pass)
BasicAuth(user, pass) ==
    [scheme |-> "basic", header |-> <<>>, username |-> user, password |-> pass]

\* BearerAuth with the token trimmed before it is put into the header
BearerAuthTrimmed(user) ==
    [scheme |-> "bearer", header |-> S_BearerSp \o TrimSpace(user),
     username |-> <<>>, password |-> <<>>]

\* req.Header.Set("Authorization", "Bearer "+user)
BearerAuth(user) ==
    [scheme |-> "bearer", header |-> S_BearerSp \o user, username |-> <<>>, password |-> <<>>]

\* Plugin.Export (current) up to the call of doRequest: the key and URL checks,
\* the trimmed URL, the auth type and the credentials.
ExportParams(key, params) ==
    IF key # S_key
    THEN [out |-> Failure("unsupportedKey", key),
          url |-> <<>>, authType |-> <<>>, user |-> <<>>, pass |-> <<>>]
    ELSE IF Len(params) = 0 \/ TrimSpace(params[1]) = <<>>
    THEN [out |-> Failure("urlRequired", <<>>),
          url |-> <<>>, authType |-> <<>>, user |-> <<>>, pass |-> <<>>]
    ELSE [out |-> NoOutcome,
          url |-> TrimSpace(params[1]),
          authType |-> IF Len(params) > 1 /\ TrimSpace(params[2]) # <<>>
                       THEN TrimSpace(params[2]) ELSE S_none,
          user |-> IF Len(params) > 2 THEN params[3] ELSE <<>>,
          pass |-> IF Len(params) > 3 THEN params[4] ELSE <<>>]

\* Plugin.Export (legacy) up to the read of the configuration
LegacyExportParams(key, params) ==
    IF Len(params) < 1
    THEN [out |-> Failure("missingURL", <<>>),
          url |-> <<>>, authType |-> <<>>, user |-> <<>>, pass |-> <<>>]
    ELSE IF params[1] = <<>>
    THEN [out |-> Failure("emptyURL", <<>>),
          url |-> <<>>, authType |-> <<>>, user |-> <<>>, pass |-> <<>>]
    ELSE [out |-> NoOutcome,
          url |-> params[1],
          authType |-> IF Len(params) > 1 /\ params[2] # <<>>
                       THEN ToLower(params[2]) ELSE S_none,
          user |-> IF Len(params) > 2 THEN params[3] ELSE <<>>,
          pass |-> IF Len(params) > 3 THEN params[4] ELSE <<>>]

\* ClientTimeout without the safety net for a timeout that is not positive
ClientTimeoutNoFloor(t) == t

\* the timeout of the http.Client of doRequest (seconds)
ClientTimeout(t) == IF t <= 0 THEN DefaultTimeout ELSE t

\* the timeout of the http.Client of the legacy Export (seconds)
LegacyClientTimeout(t) == IF t = 0 THEN 10 ELSE t

\* ApplyAuth with an unknown auth type treated like "none"
ApplyAuthLenient(url, authType, user, pass) ==
    LET m == ToLower(authType)
    IN IF ~urlParse(url).ok THEN [out |-> Failure("buildRequest", url), auth |-> NoAuth]
       ELSE IF m = S_basic THEN [out |-> NoOutcome, auth |-> BasicAuth(user, pass)]
       ELSE IF m = S_bearer
       THEN IF user = <<>> THEN [out |-> Failure("bearerToken", <<>>), auth |-> NoAuth]
            ELSE [out |-> NoOutcome, auth |-> BearerAuth(user)]
       ELSE [out |-> NoOutcome, auth |-> NoAuth]

\* ApplyAuth with basic mode refusing an empty password
ApplyAuthBasicNeedsSecret(url, authType, user, pass) ==
    LET m == ToLower(authType)
    IN IF ~urlParse(url).ok THEN [out |-> Failure("buildRequest", url), auth |-> NoAuth]
       ELSE IF m = S_basic
       THEN IF pass = <<>> THEN [out |-> Failure("basicSecret", <<>>), auth |-> NoAuth]
            ELSE [out |-> NoOutcome, auth |-> BasicAuth(user, pass)]
       ELSE IF m = S_bearer
       THEN IF user = <<>> THEN [out |-> Failure("bearerToken", <<>>), auth |-> NoAuth]
            ELSE [out |-> NoOutcome, auth |-> BearerAuth(user)]
       ELSE IF m = S_none \/ m = <<>> THEN [out |-> NoOutcome, auth |-> NoAuth]
       ELSE [out |-> Failure("unsupportedAuth", authType), auth |-> NoAuth]

\* http.NewRequest and the authentication switch of doRequest
ApplyAuth(url, authType, user, pass) ==
    LET m == ToLower(authType)
    IN IF ~urlParse(url).ok THEN [out |-> Failure("buildRequest", url), auth |-> NoAuth]
       ELSE IF m = S_basic THEN [out |-> NoOutcome, auth |-> BasicAuth(user, pass)]
       ELSE IF m = S_bearer
       THEN IF user = <<>> THEN [out |-> Failure("bearerToken", <<>>), auth |-> NoAuth]
            ELSE [out |-> NoOutcome, auth |-> BearerAuth(user)]
       ELSE IF m = S_none \/ m = <<>> THEN [out |-> NoOutcome, auth |-> NoAuth]
       ELSE [out |-> Failure("unsupportedAuth", authType), auth |-> NoAuth]

\* http.NewRequest and the authentication switch of the legacy Export
LegacyApplyAuth(url, authType, user, pass) ==
    IF ~urlParse(url).ok THEN [out |-> Failure("buildRequest", url), auth |-> NoAuth]
    ELSE IF authType = S_basic THEN [out |-> NoOutcome, auth |-> BasicAuth(user, pass)]
    ELSE IF authType = S_bearer THEN [out |-> NoOutcome, auth |-> BearerAuth(user)]
    ELSE IF authType = S_none THEN [out |-> NoOutcome, auth |-> NoAuth]
    ELSE [out |-> Failure("unsupportedAuth", authType), auth |-> NoAuth]

\* ------------------------------------------------------------------------
\* Inputs
\* ------------------------------------------------------------------------
UrlInputs == {<<>>, <<" ">>, S_url, <<" ">> \o S_url \o <<" ">>, <<"%">>}

ModeInputs ==
    {<<>>, <<" ">>, S_none, <<"N","o","n","e">>,
     S_basic, <<"B","A","S","I","C">>, <<" ">> \o S_basic \o <<" ">>,
     S_bearer, <<"B","e","a","r","e","r">>, <<" ">> \o S_bearer,
     <<"d","i","g","e","s","t">>, <<" ","D","i","g","e","s","t"," ">>}

UserInputs == {<<>>, <<"t">>, <<" ","t">>}

PassInputs == {<<>>, <<"s">>}

\* the parameter lists of segi9.http[...]: zero to four positional parameters
ParamInputs ==
    {<<>>}
    \cup {<<u>> : u \in UrlInputs}
    \cup {<<u, m>> : u \in UrlInputs, m \in ModeInputs}
    \cup {<<u, m, n>> : u \in UrlInputs, m \in ModeInputs, n \in UserInputs}
    \cup {<<u, m, n, s>> : u \in UrlInputs, m \in ModeInputs, n \in UserInputs, s \in PassInputs}

\* Export calls: the metric key with every parameter list, and a foreign key
ExportCalls ==
    {<<S_key, p>> : p \in ParamInputs} \cup {<<<<"x">>, <<S_url>>>>}

\* the flags -manual, -auth, -user, -pass
ManualArgs ==
    {<<u, m, n, s>> : u \in UrlInputs, m \in ModeInputs, n \in UserInputs, s \in PassInputs}

StatusCodes == {200, 404, 500}

Bodies == {<<"o","k">>, <<>>}

\* the inputs of the specification of concurrent requests and reconfiguration
PlainCalls == {<<S_key, <<S_url>>>>}

PlainManualArgs == {<<S_url, S_none, <<>>, <<>>>>}

ConcOptions(v) ==
    IF v = "current"
    THEN {NilOptions,
          [kind |-> "raw", Timeout |-> Val(7), SkipVerify |-> Val(TRUE)],
          [kind |-> "raw", Timeout |-> Val(45), SkipVerify |-> Val(TRUE)],
          [kind |-> "raw", Timeout |-> Val(30), SkipVerify |-> BadS]}
    ELSE {NilOptions,
          [kind |-> "config", Timeout |-> Val(7), SkipVerify |-> Val(TRUE)],
          [kind |-> "config", Timeout |-> Val(45), SkipVerify |-> Val(TRUE)],
          [kind |-> "map", Timeout |-> Val(0), SkipVerify |-> AbsentS]}

\* Configure calls as pairs <<global, options>>
ConfigureCalls(v) == Globals \X OptionsOf(v)

ConcConfigureCalls(v) ==
    {<<NilGlobal, o>> : o \in ConcOptions(v)}
    \cup {<<[isNil |-> FALSE, Timeout |-> 5], NilOptions>>}

\* the Configure calls of the specification of interleaved reconfigurations:
\* those above, and payloads that leave one of the two fields out
SwapOptions(v) ==
    LET k == IF v = "current" THEN "raw" ELSE "map"
    IN {[kind |-> k, Timeout |-> AbsentT, SkipVerify |-> Val(TRUE)],
        [kind |-> k, Timeout |-> Val(7), SkipVerify |-> AbsentS]}

SwapConfigureCalls(v) ==
    ConcConfigureCalls(v)
    \cup {<<g, o>> : g \in {NilGlobal, [isNil |-> FALSE, Timeout |-> 5]}, o \in SwapOptions(v)}

\* the Configure calls of the specification of progress: the defaults, and a
\* payload that sets both fields
LiveConfigureCalls(v) ==
    {<<NilGlobal, NilOptions>>,
     <<NilGlobal, [kind |-> IF v = "current" THEN "raw" ELSE "config",
                   Timeout |-> Val(7), SkipVerify |-> Val(TRUE)]>>}

PlainResponses == {[status |-> 200, body |-> <<"o","k">>]}

Responses == [status : StatusCodes, body : Bodies]


\* ------------------------------------------------------------------------
\* State
\* ------------------------------------------------------------------------
VARIABLES
    variant,    \* "current" or "legacy": the implementation that runs
    mode,       \* "service" (run / runPlugin) or "manual" (runManual)
    config,     \* Plugin.config
    mu,         \* Plugin.mu, a sync.RWMutex
    cfgp,       \* the Configure / Validate call of each host thread: position,
                \* arguments and, for Validate, whether it returns nil
    req,        \* the request of each worker: position, locals and outcome
    committed,  \* the Config last published (at start and at each Unlock)
    proc        \* the process in manual mode: exit status and what went to stdout / stderr

vars == <<variant, mode, config, mu, cfgp, req, committed, proc>>

NoClient == [built |-> FALSE, Timeout |-> 0, SkipVerify |-> FALSE]

NoResp == [status |-> 0, body |-> <<>>]

ReqInit ==
    [pc |-> "idle", entry |-> "none", args |-> <<>>,
     url |-> <<>>, authType |-> <<>>, user |-> <<>>, pass |-> <<>>,
     timeout |-> 0, skipVerify |-> FALSE, snapAt |-> ZeroConfig,
     client |-> NoClient, auth |-> NoAuth, netCalls |-> 0,
     resp |-> NoResp, outcome |-> NoOutcome]

CfgInit == [pc |-> "idle", global |-> NilGlobal, options |-> NilOptions, ok |-> FALSE]

MuInit == [w |-> 0, held |-> FALSE, readers |-> {}, rwait |-> {}]

ProcInit == [exit |-> -1, stdout |-> {}, stderr |-> {}]

\* `p := &Plugin{}` / `var impl Plugin`: the zero Config, an unlocked mutex
InitCommon ==
    /\ variant \in {"current", "legacy"}
    /\ config = ZeroConfig
    /\ mu = MuInit
    /\ cfgp = [c \in HostThreads |-> CfgInit]
    /\ req = [w \in Workers |-> ReqInit]
    /\ committed = ZeroConfig
    /\ proc = ProcInit

Init == InitCommon /\ mode \in {"service", "manual"}

InitService == InitCommon /\ mode = "service"

\* ------------------------------------------------------------------------
\* Plugin.Configure, step by step (the host thread c)
\* ------------------------------------------------------------------------
\* the host calls Configure(global, options)
Configure(c, Calls) ==
    /\ mode = "service"
    /\ cfgp[c].pc = "idle"
    /\ \E call \in Calls :
          cfgp' = [cfgp EXCEPT ![c] = [CfgInit EXCEPT !.pc = "lock", !.global = call[1],
                                                     !.options = call[2]]]
    /\ UNCHANGED <<variant, mode, config, mu, req, committed, proc>>

\* p.mu.Lock(): take the writer slot; from here on new readers queue up
Lock(c) ==
    /\ cfgp[c].pc = "lock"
    /\ mu.w = 0
    /\ mu' = [mu EXCEPT !.w = c]
    /\ cfgp' = [cfgp EXCEPT ![c].pc = "lockwait"]
    /\ UNCHANGED <<variant, mode, config, req, committed, proc>>

\* p.mu.Lock() returns once the readers that were in have left
LockAcquire(c) ==
    /\ cfgp[c].pc = "lockwait"
    /\ mu.w = c
    /\ mu.readers = {}
    /\ mu' = [mu EXCEPT !.held = TRUE]
    /\ cfgp' = [cfgp EXCEPT ![c].pc = "reset"]
    /\ UNCHANGED <<variant, mode, config, req, committed, proc>>

\* ConfigureReset with the reset left out: the options are applied on top of
\* the Config stored before
ConfigureResetKeeps(c) ==
    /\ cfgp[c].pc = "reset"
    /\ cfgp' = [cfgp EXCEPT ![c].pc = "unmarshal"]
    /\ UNCHANGED <<variant, mode, config, mu, req, committed, proc>>

\* reset to the built-in defaults
ConfigureReset(c) ==
    /\ cfgp[c].pc = "reset"
    /\ config' = IF variant = "current" THEN DefaultConfig
                 ELSE confUnmarshal(NilOptions, config).cfg
    /\ cfgp' = [cfgp EXCEPT ![c].pc = "unmarshal"]
    /\ UNCHANGED <<variant, mode, mu, req, committed, proc>>

\* apply the options
ConfigureUnmarshal(c) ==
    /\ cfgp[c].pc = "unmarshal"
    /\ config' = IF variant = "current" THEN ApplyOptions(cfgp[c].options, config)
                 ELSE LegacyApplyOptions(cfgp[c].options, config)
    /\ cfgp' = [cfgp EXCEPT ![c].pc = "global"]
    /\ UNCHANGED <<variant, mode, mu, req, committed, proc>>

\* the global timeout as a fallback
ConfigureGlobal(c) ==
    /\ cfgp[c].pc = "global"
    /\ config' = GlobalFallback(cfgp[c].global, config)
    /\ cfgp' = [cfgp EXCEPT ![c].pc = "clamp"]
    /\ UNCHANGED <<variant, mode, mu, req, committed, proc>>

\* the clamp
ConfigureClamp(c) ==
    /\ cfgp[c].pc = "clamp"
    /\ config' = IF variant = "current" THEN Clamp(config) ELSE LegacyClamp(config)
    /\ cfgp' = [cfgp EXCEPT ![c].pc = "log"]
    /\ UNCHANGED <<variant, mode, mu, req, committed, proc>>

\* the "configuration applied" line, written before the deferred Unlock runs
ConfigureLog(c) ==
    /\ cfgp[c].pc = "log"
    /\ cfgp' = [cfgp EXCEPT ![c].pc = "unlock"]
    /\ UNCHANGED <<variant, mode, config, mu, req, committed, proc>>

\* defer p.mu.Unlock(): the readers that queued up behind the writer get in
Unlock(c) ==
    /\ cfgp[c].pc = "unlock"
    /\ mu' = [w |-> 0, held |-> FALSE, readers |-> mu.rwait, rwait |-> {}]
    /\ committed' = config
    /\ cfgp' = [cfgp EXCEPT ![c] = CfgInit]
    /\ UNCHANGED <<variant, mode, config, req, proc>>

\* ValidateCall with the candidate decoded into p.config instead of a local
ValidateCallInPlace(c, O) ==
    /\ mode = "service"
    /\ cfgp[c].pc = "idle"
    /\ \E o \in O :
          /\ cfgp' = [cfgp EXCEPT ![c] =
                        [CfgInit EXCEPT !.pc = "validated", !.options = o,
                                        !.ok = IF variant = "current" THEN Validate(o)
                                               ELSE LegacyValidate(o)]]
          /\ config' = IF variant = "current" THEN ApplyOptions(o, DefaultConfig)
                       ELSE LegacyApplyOptions(o, DefaultConfig)
    /\ UNCHANGED <<variant, mode, mu, req, committed, proc>>

\* the host calls Validate(options): the candidate is decoded into a local Config
ValidateCall(c, O) ==
    /\ mode = "service"
    /\ cfgp[c].pc = "idle"
    /\ \E o \in O :
          cfgp' = [cfgp EXCEPT ![c] =
                      [CfgInit EXCEPT !.pc = "validated", !.options = o,
                                      !.ok = IF variant = "current" THEN Validate(o)
                                             ELSE LegacyValidate(o)]]
    /\ UNCHANGED <<variant, mode, config, mu, req, committed, proc>>

\* Validate has returned to the host
ValidateReturn(c) ==
    /\ cfgp[c].pc = "validated"
    /\ cfgp' = [cfgp EXCEPT ![c] = CfgInit]
    /\ UNCHANGED <<variant, mode, config, mu, req, committed, proc>>

\* ------------------------------------------------------------------------
\* Requests (the worker w)
\* ------------------------------------------------------------------------
Called(w, entry, args, r) ==
    IF r.out.kind = "failure"
    THEN [ReqInit EXCEPT !.pc = "done", !.entry = entry, !.args = args, !.outcome = r.out]
    ELSE [ReqInit EXCEPT !.pc = "rlock", !.entry = entry, !.args = args,
                         !.url = r.url, !.authType = r.authType,
                         !.user = r.user, !.pass = r.pass]

\* the agent calls Export(key, params)
Export(w, Calls) ==
    /\ mode = "service"
    /\ req[w].pc = "idle"
    /\ \E call \in Calls :
          LET r == IF variant = "current" THEN ExportParams(call[1], call[2])
                   ELSE LegacyExportParams(call[1], call[2])
          IN req' = [req EXCEPT ![w] = Called(w, "export", call[2], r)]
    /\ UNCHANGED <<variant, mode, config, mu, cfgp, committed, proc>>

\* runManual of the current main.go; main takes this path only for a
\* non-empty -manual flag
runManual(Args) ==
    /\ mode = "manual"
    /\ variant = "current"
    /\ req[1].pc = "idle"
    /\ proc.exit = -1
    /\ \E a \in Args :
          /\ a[1] # <<>>
          /\ req' = [req EXCEPT ![1] =
                        Called(1, "manual", a,
                               [out |-> NoOutcome, url |-> a[1], authType |-> a[2],
                                user |-> a[3], pass |-> a[4]])]
    /\ config' = ManualConfig
    /\ committed' = ManualConfig
    /\ proc' = [proc EXCEPT !.stderr = @ \cup {"log"}]
    /\ UNCHANGED <<variant, mode, mu, cfgp>>

\* runManual of the legacy main.go: usage and exit(1) without -manual,
\* otherwise impl.Export with the parameters built from the flags
LegacyRunManual(Args) ==
    /\ mode = "manual"
    /\ variant = "legacy"
    /\ req[1].pc = "idle"
    /\ proc.exit = -1
    /\ \E a \in Args :
          IF a[1] = <<>>
          THEN /\ req' = [req EXCEPT ![1] = [ReqInit EXCEPT !.pc = "exited"]]
               /\ proc' = [proc EXCEPT !.exit = 1, !.stderr = @ \cup {"usage"}]
               /\ UNCHANGED <<config, committed>>
          ELSE LET params == IF a[2] # S_none THEN a ELSE <<a[1]>>
               IN /\ req' = [req EXCEPT ![1] =
                               Called(1, "manual", a, LegacyExportParams(S_key, params))]
                  /\ config' = ManualConfig
                  /\ committed' = ManualConfig
                  /\ proc' = [proc EXCEPT !.stderr = @ \cup {"log"}]
    /\ UNCHANGED <<variant, mode, mu, cfgp>>

\* RLock that makes the reader wait also when only other readers hold the lock
RLockBehindReaders(w) ==
    /\ req[w].pc = "rlock"
    /\ IF mu.w = 0 /\ mu.readers = {}
       THEN /\ mu' = [mu EXCEPT !.readers = @ \cup {w}]
            /\ req' = [req EXCEPT ![w].pc = "readT", ![w].snapAt = config]
       ELSE /\ mu' = [mu EXCEPT !.rwait = @ \cup {w}]
            /\ req' = [req EXCEPT ![w].pc = "rblocked"]
    /\ UNCHANGED <<variant, mode, config, cfgp, committed, proc>>

\* RLock that lets the reader in although a writer holds or waits for the lock
RLockIgnoresWriter(w) ==
    /\ req[w].pc = "rlock"
    /\ mu' = [mu EXCEPT !.readers = @ \cup {w}]
    /\ req' = [req EXCEPT ![w].pc = "readT", ![w].snapAt = config]
    /\ UNCHANGED <<variant, mode, config, cfgp, committed, proc>>

\* p.mu.RLock(): in at once unless a writer holds or waits for the lock
RLock(w) ==
    /\ req[w].pc = "rlock"
    /\ IF mu.w = 0
       THEN /\ mu' = [mu EXCEPT !.readers = @ \cup {w}]
            /\ req' = [req EXCEPT ![w].pc = "readT", ![w].snapAt = config]
       ELSE /\ mu' = [mu EXCEPT !.rwait = @ \cup {w}]
            /\ req' = [req EXCEPT ![w].pc = "rblocked"]
    /\ UNCHANGED <<variant, mode, config, cfgp, committed, proc>>

\* a reader that queued up behind a writer returns from RLock after its Unlock
RLockWake(w) ==
    /\ req[w].pc = "rblocked"
    /\ w \in mu.readers
    /\ req' = [req EXCEPT ![w].pc = "readT", ![w].snapAt = config]
    /\ UNCHANGED <<variant, mode, config, mu, cfgp, committed, proc>>

\* ReadTimeout with the read lock released right after the timeout is read, so
\* that SkipVerify is read outside the critical section
ReadTimeoutThenRelease(w) ==
    /\ req[w].pc = "readT"
    /\ req' = [req EXCEPT ![w].pc = "readS", ![w].timeout = config.Timeout]
    /\ mu' = [mu EXCEPT !.readers = @ \ {w}]
    /\ UNCHANGED <<variant, mode, config, cfgp, committed, proc>>

\* p.config.Timeout
ReadTimeout(w) ==
    /\ req[w].pc = "readT"
    /\ req' = [req EXCEPT ![w].pc = "readS", ![w].timeout = config.Timeout]
    /\ UNCHANGED <<variant, mode, config, mu, cfgp, committed, proc>>

\* p.config.SkipVerify
ReadSkipVerify(w) ==
    /\ req[w].pc = "readS"
    /\ req' = [req EXCEPT ![w].pc = "runlock", ![w].skipVerify = config.SkipVerify]
    /\ UNCHANGED <<variant, mode, config, mu, cfgp, committed, proc>>

\* p.mu.RUnlock()
RUnlock(w) ==
    /\ req[w].pc = "runlock"
    /\ mu' = [mu EXCEPT !.readers = @ \ {w}]
    /\ req' = [req EXCEPT ![w].pc = "build"]
    /\ UNCHANGED <<variant, mode, config, cfgp, committed, proc>>

\* the http.Client built from the snapshot, http.NewRequest, the authentication
BuildRequest(w) ==
    /\ req[w].pc = "build"
    /\ LET q == req[w]
           client == [built |-> TRUE,
                      Timeout |-> IF variant = "current" THEN ClientTimeout(q.timeout)
                                  ELSE LegacyClientTimeout(q.timeout),
                      SkipVerify |-> q.skipVerify]
           r == IF variant = "current"
                THEN ApplyAuth(q.url, q.authType, q.user, q.pass)
                ELSE LegacyApplyAuth(q.url, q.authType, q.user, q.pass)
       IN req' = [req EXCEPT ![w].client = client,
                             ![w].auth = r.auth,
                             ![w].outcome = r.out,
                             ![w].pc = IF r.out.kind = "failure" THEN "done" ELSE "do"]
    /\ UNCHANGED <<variant, mode, config, mu, cfgp, committed, proc>>

\* ClientDo with one more attempt after the first transport error
ClientDoRetry(w, Resps) ==
    /\ req[w].pc = "do"
    /\ \/ req' = [req EXCEPT ![w].netCalls = @ + 1,
                             ![w].outcome = Failure("requestFailed", req[w].url),
                             ![w].pc = IF req[w].netCalls = 0 THEN "do" ELSE "done"]
       \/ /\ CanSend(req[w].url)
          /\ \E resp \in Resps :
                req' = [req EXCEPT ![w].netCalls = @ + 1,
                                   ![w].resp = resp,
                                   ![w].pc = "read"]
    /\ UNCHANGED <<variant, mode, config, mu, cfgp, committed, proc>>

\* client.Do(req): a transport error, or a response with any status
ClientDo(w, Resps) ==
    /\ req[w].pc = "do"
    /\ \/ req' = [req EXCEPT ![w].netCalls = @ + 1,
                             ![w].outcome = Failure("requestFailed", req[w].url),
                             ![w].pc = "done"]
       \/ /\ CanSend(req[w].url)
          /\ \E resp \in Resps :
                req' = [req EXCEPT ![w].netCalls = @ + 1,
                                   ![w].resp = resp,
                                   ![w].pc = "read"]
    /\ UNCHANGED <<variant, mode, config, mu, cfgp, committed, proc>>

\* ReadAll with a response status of 400 or above turned into an error
ReadAllChecksStatus(w) ==
    /\ req[w].pc = "read"
    /\ \/ req' = [req EXCEPT ![w].outcome = IF req[w].resp.status >= 400
                                             THEN Failure("httpStatus", req[w].url)
                                             ELSE Success(req[w].resp.body),
                             ![w].pc = "done"]
       \/ req' = [req EXCEPT ![w].outcome = Failure("readBody", req[w].url), ![w].pc = "done"]
    /\ UNCHANGED <<variant, mode, config, mu, cfgp, committed, proc>>

\* ReadAll with the error of io.ReadAll ignored: what was read before the
\* error is returned as the result
ReadAllIgnoresError(w) ==
    /\ req[w].pc = "read"
    /\ \/ req' = [req EXCEPT ![w].outcome = Success(req[w].resp.body), ![w].pc = "done"]
       \/ req' = [req EXCEPT ![w].outcome =
                                 Success(SubSeq(req[w].resp.body, 1, Len(req[w].resp.body) - 1)),
                             ![w].pc = "done"]
    /\ UNCHANGED <<variant, mode, config, mu, cfgp, committed, proc>>

\* io.ReadAll(resp.Body): the whole body, or an error part-way
ReadAll(w) ==
    /\ req[w].pc = "read"
    /\ \/ req' = [req EXCEPT ![w].outcome = Success(req[w].resp.body), ![w].pc = "done"]
       \/ req' = [req EXCEPT ![w].outcome = Failure("readBody", req[w].url), ![w].pc = "done"]
    /\ UNCHANGED <<variant, mode, config, mu, cfgp, committed, proc>>

\* Export returns to the agent; the worker is free for the next check
Return(w) ==
    /\ mode = "service"
    /\ req[w].pc = "done"
    /\ req' = [req EXCEPT ![w] = ReqInit]
    /\ UNCHANGED <<variant, mode, config, mu, cfgp, committed, proc>>

\* the end of runManual: print and exit
ManualExit ==
    /\ mode = "manual"
    /\ req[1].pc = "done"
    /\ req' = [req EXCEPT ![1].pc = "exited"]
    /\ proc' =
         IF req[1].outcome.kind = "success"
         THEN [proc EXCEPT !.exit = 0, !.stdout = @ \cup {"result"}]
         ELSE IF variant = "current"
         THEN [proc EXCEPT !.exit = 1, !.stderr = @ \cup {"error"}]
         ELSE [proc EXCEPT !.exit = 1, !.stderr = @ \cup {"error"},
                           !.stdout = @ \cup {"error"}]
    /\ UNCHANGED <<variant, mode, config, mu, cfgp, committed>>

RequestSteps(w, Resps) ==
    \/ RLock(w)
    \/ RLockWake(w)
    \/ ReadTimeout(w)
    \/ ReadSkipVerify(w)
    \/ RUnlock(w)
    \/ BuildRequest(w)
    \/ ClientDo(w, Resps)
    \/ ReadAll(w)
    \/ Return(w)

ConfigureSteps(c) ==
    \/ Lock(c)
    \/ LockAcquire(c)
    \/ ConfigureReset(c)
    \/ ConfigureUnmarshal(c)
    \/ ConfigureGlobal(c)
    \/ ConfigureClamp(c)
    \/ ConfigureLog(c)
    \/ Unlock(c)

\* ------------------------------------------------------------------------
\* Specifications
\* ------------------------------------------------------------------------
\* concurrent requests and reconfiguration, and the manual run
Next ==
    \/ \E c \in Configurers : Configure(c, ConcConfigureCalls(variant))
    \/ \E c \in Configurers : ConfigureSteps(c)
    \/ \E w \in Workers : Export(w, PlainCalls)
    \/ \E w \in Workers : RequestSteps(w, PlainResponses)
    \/ runManual(PlainManualArgs)
    \/ LegacyRunManual(PlainManualArgs)
    \/ ManualExit

Spec == Init /\ [][Next]_vars

\* reconfiguration and validation over every payload, delivered by the host
\* one call at a time
NextCfg ==
    \/ Configure(1, ConfigureCalls(variant))
    \/ ConfigureSteps(1)
    \/ ValidateCall(1, OptionsOf(variant))
    \/ ValidateReturn(1)

SpecCfg == InitService /\ [][NextCfg]_vars

\* one request at a time over every parameter list, on both entry paths; no
\* Configure runs here, so no reader ever queues behind a writer
NextReq ==
    \/ Export(1, ExportCalls)
    \/ RLock(1)
    \/ ReadTimeout(1)
    \/ ReadSkipVerify(1)
    \/ RUnlock(1)
    \/ BuildRequest(1)
    \/ ClientDo(1, Responses)
    \/ ReadAll(1)
    \/ Return(1)
    \/ runManual(ManualArgs)
    \/ LegacyRunManual(ManualArgs)
    \/ ManualExit

SpecReq == Init /\ [][NextReq]_vars

\* reconfigurations delivered by several host threads at once
NextSwap ==
    \/ \E c \in HostThreads : Configure(c, SwapConfigureCalls(variant))
    \/ \E c \in HostThreads : ConfigureSteps(c)

SpecSwap == InitService /\ [][NextSwap]_vars

\* the steps of a request up to the network call: lock operations and local
\* computation, which the Go scheduler always lets run
LocalSteps(w) ==
    \/ RLock(w)
    \/ RLockWake(w)
    \/ ReadTimeout(w)
    \/ ReadSkipVerify(w)
    \/ RUnlock(w)
    \/ BuildRequest(w)

\* the network call and the reading of the body end by themselves only under
\* a client timeout: http.Client treats a Timeout of zero as no timeout
NetworkSteps(w) ==
    /\ req[w].client.Timeout # 0
    /\ (ClientDo(w, PlainResponses) \/ ReadAll(w))

\* a Configure call that has started runs to its end (it does no I/O other
\* than logging under the lock); requests are scheduled; nothing is assumed of
\* when the host calls Configure or Export
Fairness ==
    /\ \A c \in HostThreads : WF_vars(ConfigureSteps(c))
    /\ WF_vars(LocalSteps(1))
    /\ WF_vars(NetworkSteps(1))
    /\ WF_vars(ManualExit)

\* requests that must come to an end while host threads keep reconfiguring
NextLive ==
    \/ \E c \in HostThreads : Configure(c, LiveConfigureCalls(variant))
    \/ \E c \in HostThreads : ConfigureSteps(c)
    \/ Export(1, PlainCalls)
    \/ RequestSteps(1, PlainResponses)
    \/ runManual(PlainManualArgs)
    \/ LegacyRunManual(PlainManualArgs)
    \/ ManualExit

SpecLive == Init /\ [][NextLive]_vars /\ Fairness

\* ------------------------------------------------------------------------
\* Properties
\* ------------------------------------------------------------------------
\* a payload both of whose fields decode, of a type the implementation decodes
Decodable(o) ==
    /\ o.kind \in {"raw", "config", "map"}
    /\ o.Timeout.tag # "bad"
    /\ o.SkipVerify.tag # "bad"

\* C1: Validate returns nil for a candidate with Timeout = T exactly when
\* 1 <= T <= 30: no candidate with a timeout outside the range is accepted, and
\* every candidate that decodes and whose timeout is inside it is accepted.
C1_ValidateAcceptsIffInRange ==
    \A c \in Configurers :
        (cfgp[c].pc = "validated" /\ cfgp[c].options.Timeout.tag = "val") =>
            LET o == cfgp[c].options
                T == o.Timeout.v
            IN /\ cfgp[c].ok => (1 <= T /\ T <= 30)
               /\ (Decodable(o) /\ 1 <= T /\ T <= 30) => cfgp[c].ok

\* C1 witness: a candidate with the largest timeout of the range was accepted
\* (one above it, 31, is among the candidates too)
C1_Witness ==
    \E c \in Configurers :
        /\ cfgp[c].pc = "validated"
        /\ cfgp[c].options.Timeout = Val(30)
        /\ cfgp[c].ok

\* C2: when a Configure call is about to return, the stored timeout lies in
\* [1, 30], and a requested timeout of 45 has been stored as 30.
C2_ConfigureStoresClamped ==
    \A c \in Configurers :
        cfgp[c].pc = "unlock" =>
            /\ 1 <= config.Timeout /\ config.Timeout <= 30
            /\ cfgp[c].options.Timeout = Val(45) => config.Timeout = 30

\* C3: the timeout of every HTTP client a request builds is within 1 to 30
\* seconds.
C3_ClientTimeoutInRange ==
    \A w \in Workers :
        req[w].client.built =>
            (1 <= req[w].client.Timeout /\ req[w].client.Timeout <= 30)

\* the Config a request has read, once it has read both fields
Snapshot(w) == [Timeout |-> req[w].timeout, SkipVerify |-> req[w].skipVerify]

ConfigureInFlight == \E c \in Configurers : cfgp[c].pc \notin {"idle", "validated"}

\* C4: a request that has read both fields while a Configure is in flight holds
\* the Config as last published (the one from before that Configure, or the one
\* after it once it has unlocked), and the timeout it read is not 0.
C4_SnapshotAtomicNeverZero ==
    \A w \in Workers :
        (req[w].pc = "runlock" /\ ConfigureInFlight) =>
            /\ Snapshot(w) = committed
            /\ req[w].timeout # 0

\* C5: the client of a request carries the SkipVerify flag and the timeout (a
\* non-positive one replaced by 10) of the Config as it stood when the request
\* obtained the read lock, whatever Configure has stored since.
C5_ClientFromOwnSnapshot ==
    \A w \in Workers :
        req[w].client.built =>
            /\ req[w].client.SkipVerify = req[w].snapAt.SkipVerify
            /\ req[w].client.Timeout =
                  (IF req[w].snapAt.Timeout <= 0 THEN 10 ELSE req[w].snapAt.Timeout)

\* C5 witness: a request is in flight with its client built, and a Configure
\* that completed after its snapshot has stored another timeout and flag
C5_Witness ==
    \E w \in Workers :
        /\ req[w].pc \in {"do", "read"}
        /\ req[w].client.built
        /\ committed = config
        /\ config.Timeout # req[w].snapAt.Timeout
        /\ config.SkipVerify # req[w].snapAt.SkipVerify

\* the parameters a request was called with (an omitted one is empty)
UrlArg(w) == IF Len(req[w].args) >= 1 THEN req[w].args[1] ELSE <<>>

ModeArg(w) == IF Len(req[w].args) >= 2 THEN req[w].args[2] ELSE <<>>

UserArg(w) == IF Len(req[w].args) >= 3 THEN req[w].args[3] ELSE <<>>

PassArg(w) == IF Len(req[w].args) >= 4 THEN req[w].args[4] ELSE <<>>

Norm(m) == ToLower(TrimSpace(m))

Entered(w) == req[w].entry # "none"

Finished(w) == req[w].pc \in {"done", "exited"}

PastDispatch(w) == req[w].pc \in {"do", "read", "done", "exited"}

\* the request ended before the authentication switch: its key, its URL
\* parameter or the URL itself was refused
RefusedBeforeDispatch(w) ==
    req[w].outcome.err \in {"unsupportedKey", "urlRequired", "missingURL", "emptyURL",
                            "buildRequest"}

\* C6: a request whose auth mode, trimmed and lower-cased, is neither empty nor
\* one of none, basic, bearer never reaches the network call and ends in a
\* failure; unless its key or URL was refused first, that failure is the
\* unsupported-auth one and names the mode it was given.
C6_UnsupportedModeRejected ==
    \A w \in Workers :
        (Entered(w) /\ Norm(ModeArg(w)) \notin
                          {<<>>, <<"n","o","n","e">>, <<"b","a","s","i","c">>,
                           <<"b","e","a","r","e","r">>}) =>
            /\ req[w].netCalls = 0
            /\ req[w].pc \notin {"do", "read"}
            /\ Finished(w) =>
                  /\ req[w].outcome.kind = "failure"
                  /\ \/ RefusedBeforeDispatch(w)
                     \/ /\ req[w].outcome.err = "unsupportedAuth"
                        /\ Norm(req[w].outcome.value) = Norm(ModeArg(w))
                  /\ (req[w].url # <<>> /\ urlParse(req[w].url).ok) =>
                        req[w].outcome.err = "unsupportedAuth"

\* C6 witness: a request given the mode " Digest " has ended in the
\* unsupported-auth failure without a network call
C6_Witness ==
    \E w \in Workers :
        /\ Finished(w)
        /\ ModeArg(w) = <<" ","D","i","g","e","s","t"," ">>
        /\ req[w].outcome.err = "unsupportedAuth"
        /\ req[w].netCalls = 0

\* C7: a request in bearer mode with an empty token never reaches the network
\* call and ends in a failure.
C7_BearerEmptyTokenRejected ==
    \A w \in Workers :
        (Entered(w) /\ Norm(ModeArg(w)) = <<"b","e","a","r","e","r">> /\ UserArg(w) = <<>>) =>
            /\ req[w].netCalls = 0
            /\ req[w].pc \notin {"do", "read"}
            /\ Finished(w) => req[w].outcome.kind = "failure"

\* C8: a request the code dispatches as bearer with a non-empty token carries
\* the Authorization header "Bearer " followed by the token exactly as given,
\* carries nothing that depends on the password, and goes to the network.
C8_BearerHeaderVerbatim ==
    \A w \in Workers :
        (/\ PastDispatch(w)
         /\ Entered(w)
         /\ ToLower(req[w].authType) = <<"b","e","a","r","e","r">>
         /\ UserArg(w) # <<>>
         /\ req[w].outcome.err # "buildRequest") =>
            /\ req[w].auth = [scheme |-> "bearer",
                              header |-> <<"B","e","a","r","e","r"," ">> \o UserArg(w),
                              username |-> <<>>, password |-> <<>>]
            /\ req[w].outcome.err \notin {"bearerToken", "unsupportedAuth"}
            /\ Finished(w) => req[w].netCalls = 1

\* C8 witness: a bearer request with a token that starts with a space and with
\* a password given is about to be sent
C8_Witness ==
    \E w \in Workers :
        /\ req[w].pc = "do"
        /\ req[w].auth.scheme = "bearer"
        /\ UserArg(w) = <<" ","t">>
        /\ PassArg(w) = <<"s">>

\* C9: a request the code dispatches as basic carries the Basic credentials
\* with the user parameter as username and the password parameter as password,
\* is not refused by the authentication switch, and goes to the network, also
\* with an empty password.
C9_BasicAlwaysAttaches ==
    \A w \in Workers :
        (/\ PastDispatch(w)
         /\ Entered(w)
         /\ ToLower(req[w].authType) = <<"b","a","s","i","c">>
         /\ req[w].outcome.err # "buildRequest") =>
            /\ req[w].auth = [scheme |-> "basic", header |-> <<>>,
                              username |-> UserArg(w), password |-> PassArg(w)]
            /\ req[w].outcome.err \in {"", "requestFailed", "readBody"}
            /\ Finished(w) => req[w].netCalls = 1

\* C9 witness: a basic request with an empty password has been answered
C9_Witness ==
    \E w \in Workers :
        /\ req[w].pc = "done"
        /\ req[w].auth.scheme = "basic"
        /\ PassArg(w) = <<>>
        /\ req[w].outcome.kind = "success"
        /\ req[w].netCalls = 1

\* C10: a request whose URL parameter is missing, empty or blank never reaches
\* the network call and ends in the invalid-input failure for the URL.
C10_BlankUrlInvalidInput ==
    \A w \in Workers :
        (Entered(w) /\ TrimSpace(UrlArg(w)) = <<>>) =>
            /\ req[w].netCalls = 0
            /\ req[w].pc \notin {"do", "read"}
            /\ Finished(w) =>
                  /\ req[w].outcome.kind = "failure"
                  /\ req[w].outcome.err \in {"urlRequired", "missingURL", "emptyURL"}

C12_OneAttemptNoRetry ==
    \A w \in Workers :
        /\ req[w].netCalls <= 1
        /\ req[w].outcome.err = "requestFailed" =>
              /\ req[w].netCalls = 1
              /\ Finished(w)
              /\ req[w].resp.status = 0
              /\ req[w].outcome.kind = "failure"
              /\ req[w].outcome.value = req[w].url

\* C12 witness: a request to a sendable URL has failed at the network level
\* after its single attempt
C12_Witness ==
    \E w \in Workers :
        /\ req[w].pc = "done"
        /\ req[w].outcome.err = "requestFailed"
        /\ req[w].url = <<"h","t","t","p",":","/","/","h">>
        /\ req[w].netCalls = 1

\* C13: no step of a Validate call (the call with any candidate, accepted or
\* not, and its return) changes the stored Config, the Config last published
\* or the lock: what a snapshot reads after Validate is what it read before.
C13_ValidateLeavesConfig ==
    [][(\E c \in Configurers : cfgp[c].pc = "validated" \/ cfgp'[c].pc = "validated") =>
          (config' = config /\ committed' = committed /\ mu' = mu)]_vars

\* C13 witness: Validate has rejected a candidate while the Config stored by an
\* earlier Configure (timeout 7, SkipVerify true) is in force
C13_Witness ==
    \E c \in Configurers :
        /\ cfgp[c].pc = "validated"
        /\ ~cfgp[c].ok
        /\ cfgp[c].options.kind # "nil"
        /\ config = [Timeout |-> 7, SkipVerify |-> TRUE]
        /\ committed = config

\* C14: when the timeout Configure has computed from the options and the global
\* timeout is 0 as it reaches the final safeguard, the Config it stores has the
\* timeout 10.
C14_ZeroTimeoutStoresDefault ==
    [][\A c \in Configurers :
          (cfgp[c].pc = "clamp" /\ cfgp'[c].pc = "log" /\ config.Timeout = 0) =>
              config'.Timeout = 10]_vars

\* C15: the step of Configure that consults the global timeout leaves the
\* Config as the options made it whenever the local timeout is not 0, for
\* every global timeout (absent, negative, 0, positive); no later step reads
\* the global timeout, so the stored timeout is the same for all of them.
C15_GlobalOnlyWhenLocalZero ==
    [][\A c \in Configurers :
          (cfgp[c].pc = "global" /\ cfgp'[c].pc = "clamp" /\ config.Timeout # 0) =>
              config' = config]_vars

\* C15 witness: a Configure given the global timeout 5 has passed the fallback
\* with a local timeout that is neither 0 nor 5, and negative
C15_Witness ==
    \E c \in Configurers :
        /\ cfgp[c].pc = "clamp"
        /\ ~cfgp[c].global.isNil
        /\ cfgp[c].global.Timeout = 5
        /\ config.Timeout < 0

\* what Configure(global, options) makes of a Plugin that never held a Config
Produced(v, global, options) ==
    IF v = "current"
    THEN Clamp(GlobalFallback(global, ApplyOptions(options, DefaultConfig)))
    ELSE LegacyClamp(GlobalFallback(global,
             LegacyApplyOptions(options, confUnmarshal(NilOptions, ZeroConfig).cfg)))

\* C16: with Configure calls from several host threads interleaved in every
\* way, the Config a call is about to publish is the one the same call makes of
\* a fresh Plugin, whatever was stored before; a field its payload leaves out
\* has the built-in default; and whenever no call holds the lock the stored
\* Config is the one published by the last call to complete.
C16_LastConfigureWins ==
    /\ \A c \in HostThreads :
          cfgp[c].pc = "unlock" =>
              /\ config = Produced(variant, cfgp[c].global, cfgp[c].options)
              /\ cfgp[c].options.SkipVerify.tag = "absent" => config.SkipVerify = FALSE
              /\ (cfgp[c].options.Timeout.tag = "absent" /\ cfgp[c].global.isNil) =>
                    config.Timeout = 10
    /\ ~mu.held => config = committed

\* C16 witness: a call whose payload leaves SkipVerify out is about to publish
\* its Config while another call waits for the lock, and the Config published
\* before had SkipVerify set and another timeout
C16_Witness ==
    \E c, d \in HostThreads :
        /\ c # d
        /\ cfgp[c].pc = "unlock"
        /\ cfgp[d].pc = "lock"
        /\ cfgp[c].options.kind \in {"raw", "map"}
        /\ cfgp[c].options.SkipVerify.tag = "absent"
        /\ committed.SkipVerify
        /\ committed.Timeout # config.Timeout

\* C17: every request that has started its snapshot read ends with an outcome,
\* a success or a failure, also while Configure calls keep arriving.
C17_RequestEventuallyReturns ==
    \A w \in Workers :
        (req[w].pc = "rlock") ~>
            (req[w].pc \in {"done", "exited"} /\ req[w].outcome.kind \in {"success", "failure"})

\* C17 witness: a request waits for the read lock behind a Configure call
\* while a second Configure call waits for the write lock
C17_Witness ==
    \E w \in Workers : \E c, d \in HostThreads :
        /\ c # d
        /\ req[w].pc = "rblocked"
        /\ mu.held /\ mu.w = c
        /\ cfgp[d].pc = "lock"

\* C18: a request that has read both fields under the read lock holds the
\* Config published by the last Configure to have returned (so none older than
\* a Configure that returned before the request began), and the client it then
\* builds is made from that snapshot of its own: SkipVerify as read, the timeout
\* as read with a non-positive one replaced by 10.
C18_NoStaleSettings ==
    \A w \in Workers :
        /\ req[w].pc = "runlock" => (Snapshot(w) = committed /\ committed = config)
        /\ req[w].client.built =>
              /\ req[w].client.SkipVerify = req[w].skipVerify
              /\ req[w].client.Timeout = (IF req[w].timeout <= 0 THEN 10 ELSE req[w].timeout)

\* C18 witness: a request is about to be sent with a client made from the
\* Config a Configure has published (timeout 7, SkipVerify true) while an older
\* request is still in flight with a client made from the Config before it
C18_Witness ==
    \E w, o \in Workers :
        /\ w # o
        /\ req[w].pc = "do"
        /\ committed = [Timeout |-> 7, SkipVerify |-> TRUE]
        /\ req[w].client = [built |-> TRUE, Timeout |-> 7, SkipVerify |-> TRUE]
        /\ req[o].pc \in {"do", "read"}
        /\ req[o].client = [built |-> TRUE, Timeout |-> 10, SkipVerify |-> FALSE]

\* C19: on every entry path a request whose URL was accepted is treated by the
\* mode its auth-mode parameter has once trimmed and lower-cased: basic attaches
\* the Basic credentials, bearer with a token attaches the Bearer header, and an
\* omitted, empty or blank mode or none attaches nothing and goes to the
\* network; none of them is refused as an unsupported mode.
C19_ModeTrimmedCaseInsensitive ==
    \A w \in Workers :
        (Entered(w) /\ Finished(w) /\ req[w].entry \in {"export", "manual"}
                    /\ ~RefusedBeforeDispatch(w)) =>
            /\ req[w].outcome.err # "unsupportedAuth" \/
                  Norm(ModeArg(w)) \notin {<<>>, <<"n","o","n","e">>, <<"b","a","s","i","c">>,
                                         <<"b","e","a","r","e","r">>}
            /\ Norm(ModeArg(w)) = <<"b","a","s","i","c">> =>
                  req[w].auth = [scheme |-> "basic", header |-> <<>>,
                                 username |-> UserArg(w), password |-> PassArg(w)]
            /\ (Norm(ModeArg(w)) = <<"b","e","a","r","e","r">> /\ UserArg(w) # <<>>) =>
                  req[w].auth = [scheme |-> "bearer",
                                 header |-> <<"B","e","a","r","e","r"," ">> \o UserArg(w),
                                 username |-> <<>>, password |-> <<>>]
            /\ Norm(ModeArg(w)) \in {<<>>, <<"n","o","n","e">>} =>
                  /\ req[w].auth.scheme = "none"
                  /\ req[w].netCalls = 1

\* C20: the manual run reads the Config (timeout 10, SkipVerify true) and
\* builds its client from it; when the process has ended after a request, a
\* success has put the result on stdout with exit status 0, and a failure has
\* put the message on stderr, nothing on stdout, with exit status 1.
C20_ManualRunExitAndStreams ==
    mode = "manual" =>
        /\ req[1].pc \in {"build", "do", "read"} =>
              (req[1].timeout = 10 /\ req[1].skipVerify = TRUE)
        /\ req[1].client.built =>
              (req[1].client.Timeout = 10 /\ req[1].client.SkipVerify = TRUE)
        /\ (req[1].pc = "exited" /\ Entered(1)) =>
              /\ req[1].outcome.kind = "success" =>
                    (proc.exit = 0 /\ "result" \in proc.stdout /\ "error" \notin proc.stderr)
              /\ req[1].outcome.kind = "failure" =>
                    (proc.exit = 1 /\ "error" \in proc.stderr /\ proc.stdout = {})

\* C21: a request that has ended in a success got a response and carries its
\* whole body; one that got a response and did not end in a success ended in
\* the read-body failure; and the network failure is the
\* outcome of requests that got no response only, so the two failures differ.
C21_SuccessCarriesWholeBody ==
    \A w \in Workers :
        Finished(w) =>
            /\ req[w].outcome.kind = "success" =>
                  (req[w].resp.status # 0 /\ req[w].outcome.value = req[w].resp.body)
            /\ (req[w].resp.status # 0 /\ req[w].outcome.kind # "success") =>
                  /\ req[w].outcome.kind = "failure"
                  /\ req[w].outcome.err = "readBody"
            /\ req[w].outcome.err = "readBody" => req[w].resp.status # 0
            /\ req[w].outcome.err = "requestFailed" => req[w].resp.status = 0

\* C21 witness: the reading of a non-empty body has failed after a response
\* with status 200 and the request has ended in the read-body failure
C21_Witness ==
    \E w \in Workers :
        /\ req[w].pc = "done"
        /\ req[w].resp = [status |-> 200, body |-> <<"o","k">>]
        /\ req[w].outcome.kind = "failure"
        /\ req[w].outcome.err = "readBody"

\* C22: in service mode, with no Configure call delivered, a request that has
\* read both fields under the read lock has read timeout 10 and SkipVerify
\* false.
C22_DefaultsFromStart ==
    \A w \in Workers :
        (mode = "service" /\ req[w].pc = "runlock") =>
            Snapshot(w) = [Timeout |-> 10, SkipVerify |-> FALSE]

\* C23: while a Configure call is at its log line it does not hold the write
\* lock, so no request waits for the read lock behind a log write.
C23_NoLoggingUnderLock ==
    \A c \in Configurers :
        cfgp[c].pc = "log" =>
            /\ ~(mu.held /\ mu.w = c)
            /\ \A w \in Workers : req[w].pc # "rblocked"

\* C24 (as claimed): a request waits for the read lock only while a Configure
\* call holds the write lock (or is taking it with no reader in its way), never
\* while other requests hold the read lock, also when a Configure call is
\* waiting behind them.
C24_BlockedOnlyByLockHolder ==
    \A w \in Workers :
        (req[w].pc = "rblocked" /\ w \in mu.rwait) => (mu.held \/ mu.readers = {})

\* C24 (amended): a request waits for the read lock only while a Configure call
\* holds the write lock or waits for it; with no such call, readers that hold
\* the read lock never make another reader wait.
C24_BlockedOnlyByWriter ==
    \A w \in Workers :
        (req[w].pc = "rblocked" /\ w \in mu.rwait) =>
            /\ mu.w # 0
            /\ cfgp[mu.w].pc \in {"lockwait", "reset", "unmarshal", "global", "clamp",
                                  "log", "unlock"}

\* C24 witness: two requests hold the read lock at the same time
C24_Witness ==
    \E w, o \in Workers :
        /\ w # o
        /\ {w, o} \subseteq mu.readers
        /\ req[w].pc \in {"readT", "readS", "runlock"}
        /\ req[o].pc \in {"readT", "readS", "runlock"}
        /\ mu.w = 0

\* options that Configure fails to parse: text that does not decode to the
\* type of its field, or (under the tags the current Configure decodes with) a
\* timeout outside 1..30
ParseFails(v, o) ==
    /\ o.kind \in {"raw", "map"}
    /\ \/ o.Timeout.tag = "bad"
       \/ o.SkipVerify.tag = "bad"
       \/ v = "current" /\ o.Timeout.tag = "val" /\ (o.Timeout.v < 1 \/ o.Timeout.v > 30)

\* C25: a Configure call whose options fail to parse is about to publish the
\* built-in defaults (timeout 10, SkipVerify false), whatever was stored before.
C25_ParseFailureStoresDefaults ==
    \A c \in Configurers :
        (cfgp[c].pc = "unlock" /\ ParseFails(variant, cfgp[c].options)) =>
            config = [Timeout |-> 10, SkipVerify |-> FALSE]

\* the Config a candidate stands for: the values it gives, and the built-in
\* default for a field it leaves out
CandidateConfig(o) ==
    [Timeout |-> IF o.Timeout.tag = "val" THEN o.Timeout.v ELSE 10,
     SkipVerify |-> IF o.SkipVerify.tag = "val" THEN o.SkipVerify.v ELSE FALSE]

\* whether Validate returns nil for the candidate
Accepted(v, o) == IF v = "current" THEN Validate(o) ELSE LegacyValidate(o)

\* C26: a Configure call given a candidate that Validate accepts is about to
\* publish exactly the candidate's timeout and SkipVerify (the default for a
\* field left out), for every global timeout.
C26_ValidatedCandidateStoredAsIs ==
    \A c \in Configurers :
        (cfgp[c].pc = "unlock" /\ Accepted(variant, cfgp[c].options)) =>
            config = CandidateConfig(cfgp[c].options)

\* C26 witness: a Configure call given the accepted candidate (30, true) and
\* the global timeout 5 is about to publish (30, true)
C26_Witness ==
    \E c \in Configurers :
        /\ cfgp[c].pc = "unlock"
        /\ cfgp[c].options.Timeout = Val(30)
        /\ cfgp[c].options.SkipVerify = Val(TRUE)
        /\ ~cfgp[c].global.isNil
        /\ cfgp[c].global.Timeout = 5
        /\ config = [Timeout |-> 30, SkipVerify |-> TRUE]

====
